---- MODULE Spec2Model ----
(***************************************************************************)
(* ThreadEPy: the parallel EnergyPlus job scheduler.                       *)
(*                                                                         *)
(* The model covers the status store (eP_T.SimulationStatus), the queue    *)
(* consumer thread (eP_T.update_process), the resource sampler             *)
(* (eP_T.process_monitor), the per-job runner process                      *)
(* (eP_S.run_energyplus_simulation), the result sink                       *)
(* (eP_U.add_simulation_to_csv) and the control loop of                    *)
(* eP_S.run_simulations.                                                   *)
(*                                                                         *)
(* Job names are the numbers 1..NumJobs in the order of the submitted      *)
(* list.  Wall-clock time is the integer variable clock (seconds); None    *)
(* is NoTime.  An output line of the external program is abstracted to    *)
(* the substrings the code tests for.  INFO messages only print and are    *)
(* not put on the modelled queue.                                          *)
(***************************************************************************)
EXTENDS Integers, Sequences, FiniteSets, TLC

\* ------------------------------------------------------------------ bounds
NumJobs == 2
MaxRequested == 2
MaxEvents == 1
MaxJobEvents == 2
MaxStoreOps == 3
MaxCores == 4
MaxFiles == 4
MaxLogOps == 12
MaxTokens == 3

\* ------------------------------------------------------- program constants
LogCapacity == 10
CheckInterval == 5
TimeoutSeconds == 3600
NoTime == 0

Jobs == 1..NumJobs

\* --------------------------------------------------------------- statuses
FailedMissing == "Failed (Missing EnergyPlus)"
FailedFatal == "Failed (Fatal Error)"
FailedExit == "Failed (Exit code: 1)"

\* eP_S lines 196-209: the status the runner derives from the exit code
ExitStatus(returncode) == IF returncode = 0 THEN "Completed" ELSE FailedExit
FailedDied == "Failed (Process died)"
FailedTimeout == "Failed (Timeout)"
FailedException == "Failed: exception"
FailedBare == "Failed"

\* status.startswith('Failed')
StartsWithFailed(status) ==
    status \in {FailedBare, FailedMissing, FailedFatal, FailedExit,
                FailedDied, FailedTimeout, FailedException}

\* status == 'Failed' or status.startswith('Failed (')
IsFailedOrParen(status) ==
    status \in {FailedBare, FailedMissing, FailedFatal, FailedExit,
                FailedDied, FailedTimeout}

Terminal(status) == status = "Completed" \/ StartsWithFailed(status)

\* ------------------------------------------------------------ output lines
\* marker : the branch of add_log's elif chain the lower-cased line takes
\* exact  : the case-sensitive text the code splits on occurs in the line
\* parses : the text after the marker converts to a number
\* num    : that number
\* warn, severe, error, fatal : '* warning *', '* severe *', 'error', 'fatal'
\* rfatal : '**fatal', 'fatal error' or 'fatal:' (the runner's test)
\* success: 'energyplus completed successfully'
MkLine(marker, exact, parses, num, flags) ==
    [marker |-> marker, exact |-> exact, parses |-> parses, num |-> num,
     warn |-> "warn" \in flags, severe |-> "severe" \in flags,
     error |-> "error" \in flags, fatal |-> "fatal" \in flags,
     rfatal |-> "rfatal" \in flags, success |-> "success" \in flags]

PlainLine == MkLine("none", FALSE, FALSE, 0, {})
WarningLine == MkLine("none", FALSE, FALSE, 0, {"warn"})
SevereLine == MkLine("none", FALSE, FALSE, 0, {"severe"})
ErrorLine == MkLine("none", FALSE, FALSE, 0, {"error"})
NonFatalLine == MkLine("none", FALSE, FALSE, 0, {"fatal"})
FatalLine == MkLine("none", FALSE, FALSE, 0, {"fatal", "rfatal"})
FatalErrorLine == MkLine("none", FALSE, FALSE, 0, {"fatal", "rfatal", "error"})
SuccessLine == MkLine("none", FALSE, FALSE, 0, {"success"})
MonthLine(n) == MkLine("month", TRUE, TRUE, n, {})
MonthCapsLine == MkLine("month", FALSE, TRUE, 3, {})
MonthBadLine == MkLine("month", TRUE, FALSE, 0, {})
PctLine(n) == MkLine("pct", TRUE, TRUE, n, {})
PctCapsLine == MkLine("pct", FALSE, TRUE, 50, {})
Start1Line == MkLine("start1", FALSE, FALSE, 0, {})
Start5Line == MkLine("start5", FALSE, FALSE, 0, {})
WarmupLine(n) == MkLine("warmup", TRUE, TRUE, n, {})
WarmupBadLine == MkLine("warmup", TRUE, FALSE, 0, {})

\* every line shape the store distinguishes
AllLines ==
    {PlainLine, WarningLine, SevereLine, ErrorLine, NonFatalLine, FatalLine,
     FatalErrorLine, SuccessLine, MonthLine(1), MonthLine(12), MonthLine(13),
     MonthCapsLine, MonthBadLine, PctLine(50), PctLine(150), PctCapsLine,
     Start1Line, Start5Line, WarmupLine(1), WarmupLine(3), WarmupBadLine}

\* the lines the external process prints in a run over one job
ProcessLines ==
    {ErrorLine, FatalLine, SuccessLine, MonthLine(1), MonthLine(2), Start1Line}

\* the lines the external process prints in a run over several jobs
SchedulingLines == {FatalLine, SuccessLine}

\* ------------------------------------------------------- lines as text
\* A lower-cased line is a sequence of tokens; a pattern occurs in the line
\* when its tokens occur side by side.
Tokens == {"**", "fatal", " error", ":", " "}

\* the tokens the counters of add_log depend on (eP_T lines 70-72, 104-108)
CountTokens ==
    {"fatal", " error", "* severe *", "* warning *",
     "energyplus completed successfully", " "}

Contains(text, pattern) ==
    \E i \in 0..(Len(text) - Len(pattern)) :
       \A k \in 1..Len(pattern) : text[i + k] = pattern[k]

\* eP_S lines 150 and 405: '**fatal' in l or 'fatal error' in l or 'fatal:' in l
RunnerFatal(text) ==
    \/ Contains(text, << "**", "fatal" >>)
    \/ Contains(text, << "fatal", " error" >>)
    \/ Contains(text, << "fatal", ":" >>)

\* eP_T line 108: 'fatal' in l or '**fatal:' in l or 'fatal error' in l
StoreFatal(text) ==
    \/ Contains(text, << "fatal" >>)
    \/ Contains(text, << "**", "fatal", ":" >>)
    \/ Contains(text, << "fatal", " error" >>)

\* the line as the store and the runner see it
LineOf(text) ==
    [marker |-> "none", exact |-> FALSE, parses |-> FALSE, num |-> 0,
     warn |-> Contains(text, << "* warning *" >>),
     severe |-> Contains(text, << "* severe *" >>),
     error |-> Contains(text, << " error" >>),
     fatal |-> StoreFatal(text),
     rfatal |-> RunnerFatal(text),
     success |-> Contains(text, << "energyplus completed successfully" >>)]

\* ------------------------------------------------------------ status store
Min(a, b) == IF a < b THEN a ELSE b
Max(a, b) == IF a > b THEN a ELSE b

\* int(x / d) for a float quotient: truncation toward zero
TruncDiv(x, d) == IF x >= 0 THEN x \div d ELSE -((-x) \div d)

add_simulation(S, idf_name) ==
    [k \in (DOMAIN S) \cup {idf_name} |->
        IF k = idf_name
        THEN [status |-> "Waiting", progress |-> 0, cpu |-> 0, memory |-> 0,
              log |-> << >>, start_time |-> NoTime, end_time |-> NoTime,
              errors |-> 0, warnings |-> 0]
        ELSE S[k]]

\* update_simulation taking a resource sample as a sign that the job runs
update_simulation_infers(S, idf_name, kwargs, now) ==
    IF idf_name \notin DOMAIN S THEN S
    ELSE
      LET kw == IF "status" \in DOMAIN kwargs
                   /\ (kwargs.status = "Completed" \/ StartsWithFailed(kwargs.status))
                THEN [cpu |-> 0, memory |-> 0] @@ kwargs
                ELSE IF "status" \notin DOMAIN kwargs /\ "cpu" \in DOMAIN kwargs
                THEN [status |-> "Running"] @@ kwargs
                ELSE kwargs
          r1 == [k \in DOMAIN S[idf_name] |->
                    IF k \in DOMAIN kw THEN kw[k] ELSE S[idf_name][k]]
          r2 == IF "status" \in DOMAIN kw /\ kw.status = "Running"
                   /\ r1.start_time = NoTime
                THEN [r1 EXCEPT !.start_time = now]
                ELSE r1
      IN [S EXCEPT ![idf_name] = r2]

\* update_simulation clearing both counters when it is given a Failed status
update_simulation_clears(S, idf_name, kwargs, now) ==
    IF idf_name \notin DOMAIN S THEN S
    ELSE
      LET kw == IF "status" \in DOMAIN kwargs
                   /\ (kwargs.status = "Completed" \/ StartsWithFailed(kwargs.status))
                THEN [cpu |-> 0, memory |-> 0] @@ kwargs
                ELSE kwargs
          r1 == [k \in DOMAIN S[idf_name] |->
                    IF k \in DOMAIN kw THEN kw[k] ELSE S[idf_name][k]]
          r2 == IF "status" \in DOMAIN kw /\ kw.status = "Running"
                   /\ r1.start_time = NoTime
                THEN [r1 EXCEPT !.start_time = now]
                ELSE r1
          r3 == IF "status" \in DOMAIN kw /\ StartsWithFailed(kw.status)
                THEN [r2 EXCEPT !.errors = 0, !.warnings = 0]
                ELSE r2
      IN [S EXCEPT ![idf_name] = r3]

\* update_simulation stamping start_time on every Running update
update_simulation_restamps(S, idf_name, kwargs, now) ==
    IF idf_name \notin DOMAIN S THEN S
    ELSE
      LET kw == IF "status" \in DOMAIN kwargs
                   /\ (kwargs.status = "Completed" \/ StartsWithFailed(kwargs.status))
                THEN [cpu |-> 0, memory |-> 0] @@ kwargs
                ELSE kwargs
          r1 == [k \in DOMAIN S[idf_name] |->
                    IF k \in DOMAIN kw THEN kw[k] ELSE S[idf_name][k]]
          r2 == IF "status" \in DOMAIN kw /\ kw.status = "Running"
                THEN [r1 EXCEPT !.start_time = now]
                ELSE r1
      IN [S EXCEPT ![idf_name] = r2]

\* lines 43-56
update_simulation(S, idf_name, kwargs, now) ==
    IF idf_name \notin DOMAIN S THEN S
    ELSE
      LET kw == IF "status" \in DOMAIN kwargs
                   /\ (kwargs.status = "Completed" \/ StartsWithFailed(kwargs.status))
                THEN [cpu |-> 0, memory |-> 0] @@ kwargs
                ELSE kwargs
          r1 == [k \in DOMAIN S[idf_name] |->
                    IF k \in DOMAIN kw THEN kw[k] ELSE S[idf_name][k]]
          r2 == IF "status" \in DOMAIN kw /\ kw.status = "Running"
                   /\ r1.start_time = NoTime
                THEN [r1 EXCEPT !.start_time = now]
                ELSE r1
      IN [S EXCEPT ![idf_name] = r2]

\* AppendLog dropping the new line when the buffer is full
AppendLogKeepsOldest(logs, line) ==
    IF Len(logs) >= LogCapacity THEN logs ELSE Append(logs, line)

\* lines 63-66.  The runner sends line.strip() (eP_S line 146), so the
\* strip() of line 64 returns the line it is given.
AppendLog(logs, line) ==
    LET l == Append(logs, line)
    IN IF Len(l) > LogCapacity THEN Tail(l) ELSE l

\* lines 76-101: the progress / implicit status heuristic
ProgressStep(r, line) ==
    CASE line.marker = "month" ->
            IF line.exact /\ line.parses
            THEN [r EXCEPT !.progress = Min(100, TruncDiv(line.num * 100, 12))]
            ELSE r
      [] line.marker = "pct" ->
            IF line.exact /\ line.parses
            THEN [r EXCEPT !.progress = Min(100, line.num)]
            ELSE r
      [] line.marker = "start1" ->
            [r EXCEPT !.status = "Running", !.progress = Max(1, r.progress)]
      [] line.marker = "start5" ->
            [r EXCEPT !.status = "Running", !.progress = Max(5, r.progress)]
      [] line.marker = "warmup" ->
            IF line.parses
            THEN [r EXCEPT !.status = "Running",
                           !.progress = Max(5 + line.num * 2, r.progress)]
            ELSE [r EXCEPT !.status = "Running",
                           !.progress = Max(10, r.progress)]
      [] OTHER -> r

\* TerminalStep without the second `errors += 1` of line 112
TerminalStepCountsOnce(r, line, now) ==
    IF line.success
    THEN [r EXCEPT !.status = "Completed", !.progress = 100, !.end_time = now]
    ELSE IF line.fatal
    THEN [r EXCEPT !.status = FailedBare, !.progress = 100, !.end_time = now]
    ELSE r

\* lines 103-112: completion or fatal markers
TerminalStep(r, line, now) ==
    IF line.success
    THEN [r EXCEPT !.status = "Completed", !.progress = 100, !.end_time = now]
    ELSE IF line.fatal
    THEN [r EXCEPT !.status = FailedBare, !.progress = 100, !.end_time = now,
                   !.errors = r.errors + 1]
    ELSE r

add_log(S, idf_name, line, now) ==
    IF idf_name \notin DOMAIN S THEN S
    ELSE
      LET r0 == S[idf_name]
          r1 == [r0 EXCEPT !.log = AppendLog(r0.log, line)]
          r2 == IF line.warn THEN [r1 EXCEPT !.warnings = r1.warnings + 1] ELSE r1
          r3 == IF line.severe \/ line.fatal \/ line.error
                THEN [r2 EXCEPT !.errors = r2.errors + 1] ELSE r2
          r4 == ProgressStep(r3, line)
          r5 == TerminalStep(r4, line, now)
      IN [S EXCEPT ![idf_name] = r5]


\* ------------------------------------------------------------ result sink
\* eP_U.add_simulation_to_csv: the row appended for one job
add_simulation_to_csv(idf_name, info, row_number) ==
    LET progress == IF info.status = "Completed" THEN 1 ELSE 0
        runtime == IF info.start_time # NoTime /\ info.end_time # NoTime
                   THEN info.end_time - info.start_time
                   ELSE 0
    IN [row |-> row_number, job |-> idf_name, progress |-> progress,
        message |-> IF progress = 1 THEN "EnergyPlus Completed Successfully"
                    ELSE info.status,
        warnings |-> info.warnings, errors |-> info.errors,
        hours |-> runtime \div 3600,
        minutes |-> (runtime % 3600) \div 60,
        seconds |-> runtime % 60]

\* ------------------------------------------------------------------ state
VARIABLES
    simulations,       \* status_tracker.simulations
    update_queue,      \* manager.Queue() of UPDATE / LOG / COMPLETED / DONE
    completed_queue,   \* manager.Queue() of job names
    thread_running,    \* update_process has not seen DONE
    rpc,               \* position of each job's runner process
    idf_files,         \* the submitted job list
    weather_file,      \* the weather_file argument: none, missing or exists
    workers_given,     \* the max_workers argument is not None
    requested_workers, \* the max_workers argument of run_simulations
    available_cores,   \* psutil.cpu_count(logical=True)
    max_workers,
    exe_exists,        \* energyplus.exe is in eplus_path
    process_lines,     \* the lines the external program may print
    batch_left,        \* iterations left of the initial batch loop
    active_processes,  \* insertion-ordered dict: <<[name, start_time]>>
    waiting_files,
    completed_count,
    last_check_time,
    row_counter,
    csv_written,
    csv_rows,          \* the rows of the result file, in the order written
    completed_names,
    pc,                \* position of run_simulations
    clock,             \* time.time()
    budget,            \* environment events still allowed: lines, samples, ticks, faults
    ops,               \* store calls made so far (store specification)
    last_call,         \* the latest store call (store specification)
    signals,           \* completion signals each runner has emitted so far
    temp_dir,          \* each runner's scratch directory: none, created or removed
    cwd,               \* each runner process's working directory
    pending,           \* each job's UPDATE and LOG messages not yet applied, as emitted
    launches,          \* how many processes have been started for each job
    appended,          \* the lines passed to add_log so far (store specification)
    line_text,         \* an output line as text: a sequence of tokens
    fatal_error_detected, \* the runner's verdict on line_text
    forced,            \* the names the latest sweep forced from Initializing to Failed
    exit_status        \* per job: the status its runner derived from the exit code

vars == <<simulations, update_queue, completed_queue, thread_running, rpc,
          idf_files, weather_file, workers_given, requested_workers,
          available_cores, max_workers, exe_exists, process_lines, batch_left,
          active_processes, waiting_files, completed_count, last_check_time,
          row_counter, csv_written, csv_rows, completed_names, pc, clock, budget,
          ops, last_call, signals, temp_dir, cwd, pending, launches, appended,
          line_text, fatal_error_detected, forced, exit_status>>

\* --------------------------------------------------------------- messages
NoUpdates == [none |-> TRUE]
UpdateMsg(name, kw) == [type |-> "UPDATE", name |-> name, updates |-> kw, line |-> PlainLine]
LogMsg(name, line) == [type |-> "LOG", name |-> name, updates |-> NoUpdates, line |-> line]
CompletedMsg(name) == [type |-> "COMPLETED", name |-> name, updates |-> NoUpdates, line |-> PlainLine]
DoneMsg == [type |-> "DONE", name |-> 0, updates |-> NoUpdates, line |-> PlainLine]

TerminalUpdate(status, now) == [status |-> status, progress |-> 100, end_time |-> now]

\* ---------------------------------------------------------- small helpers
RECURSIVE SeqToSet(_)
SeqToSet(s) == IF s = << >> THEN {} ELSE {Head(s)} \cup SeqToSet(Tail(s))

RECURSIVE Without(_, _)
Without(s, name) ==
    IF s = << >> THEN << >>
    ELSE IF Head(s).name = name THEN Without(Tail(s), name)
    ELSE << Head(s) >> \o Without(Tail(s), name)

ActiveNames(active) == {active[i].name : i \in 1..Len(active)}
ActiveEntry(active, name) == CHOOSE e \in SeqToSet(active) : e.name = name

\* Process.is_alive() of a runner process
IsAlive(rp, name) == rp[name] \in {"start", "reading"}

\* Process.terminate() on a runner process that may have exited already
Terminate(rp, name) == IF IsAlive(rp, name) THEN [rp EXCEPT ![name] = "dead"] ELSE rp

RunEnded == pc \in {"done", "aborted"}

\* the UPDATE and LOG messages among those appended to q to give q2
Emitted(q, q2) ==
    SelectSeq(SubSeq(q2, Len(q) + 1, Len(q2)), LAMBDA m : m.type \in {"UPDATE", "LOG"})

\* s without the first occurrence of message
RECURSIVE RemoveFirst(_, _)
RemoveFirst(s, message) ==
    IF s = << >> THEN << >>
    ELSE IF Head(s) = message THEN Tail(s)
    ELSE << Head(s) >> \o RemoveFirst(Tail(s), message)

\* the pending messages after one message has been taken and applied
Applied(p, message) ==
    IF message.type \in {"UPDATE", "LOG"}
    THEN [p EXCEPT ![message.name] = RemoveFirst(@, message)]
    ELSE p

\* ------------------------------------------------- runner process (eP_S)
\* one environment event is spent
Event == budget > 0 /\ budget' = budget - 1

\* lines 62-137: the runner announces itself, then either finds no executable
\* (lines 80-91, returning inside the try) or starts the external process
RunnerStart(j) ==
    /\ ~RunEnded
    /\ rpc[j] = "start"
    /\ IF exe_exists
       THEN /\ update_queue' = update_queue \o
                   << UpdateMsg(j, [status |-> "Initializing"]),
                      UpdateMsg(j, [status |-> "Running"]) >>
            /\ completed_queue' = completed_queue
            /\ signals' = signals
            /\ temp_dir' = [temp_dir EXCEPT ![j] = "created"]
            /\ cwd' = [cwd EXCEPT ![j] = "temp_dir"]
            /\ rpc' = [rpc EXCEPT ![j] = "reading"]
       ELSE /\ update_queue' = update_queue \o
                   << UpdateMsg(j, [status |-> "Initializing"]),
                      UpdateMsg(j, TerminalUpdate(FailedMissing, clock)),
                      CompletedMsg(j) >>
            /\ completed_queue' = Append(completed_queue, j)
            /\ signals' = [signals EXCEPT ![j] = @ + 1]
            /\ temp_dir' = [temp_dir EXCEPT ![j] = "created"]
            /\ cwd' = cwd
            /\ rpc' = [rpc EXCEPT ![j] = "done"]
    /\ pending' = [pending EXCEPT ![j] = @ \o Emitted(update_queue, update_queue')]
    /\ UNCHANGED <<simulations, thread_running, idf_files, weather_file,
                   workers_given, requested_workers, available_cores, max_workers,
                   exe_exists, process_lines, batch_left, active_processes,
                   waiting_files, completed_count, last_check_time, row_counter,
                   csv_written, csv_rows, completed_names, pc, clock, budget, ops,
                   last_call, launches, appended, line_text, fatal_error_detected,
                   forced, exit_status>>

\* lines 143-183: one non-empty output line
RunnerReadLine(j) ==
    /\ ~RunEnded
    /\ rpc[j] = "reading"
    /\ Event
    /\ \E line \in process_lines :
         IF line.rfatal
         THEN /\ update_queue' = update_queue \o
                     << LogMsg(j, line),
                        UpdateMsg(j, TerminalUpdate(FailedFatal, clock)),
                        CompletedMsg(j) >>
              /\ completed_queue' = Append(completed_queue, j)
              /\ signals' = [signals EXCEPT ![j] = @ + 1]
              /\ temp_dir' = [temp_dir EXCEPT ![j] = "removed"]
              /\ cwd' = [cwd EXCEPT ![j] = "original_dir"]
              /\ rpc' = [rpc EXCEPT ![j] = "done"]
         ELSE IF line.success
         THEN /\ update_queue' = update_queue \o
                     << LogMsg(j, line),
                        UpdateMsg(j, TerminalUpdate("Completed", clock)),
                        CompletedMsg(j) >>
              /\ completed_queue' = Append(completed_queue, j)
              /\ signals' = [signals EXCEPT ![j] = @ + 1]
              /\ UNCHANGED <<temp_dir, cwd>>
              /\ rpc' = rpc
         ELSE /\ update_queue' = Append(update_queue, LogMsg(j, line))
              /\ completed_queue' = completed_queue
              /\ signals' = signals
              /\ UNCHANGED <<temp_dir, cwd>>
              /\ rpc' = rpc
    /\ pending' = [pending EXCEPT ![j] = @ \o Emitted(update_queue, update_queue')]
    /\ UNCHANGED <<simulations, thread_running, idf_files, weather_file,
                   workers_given, requested_workers, available_cores, max_workers,
                   exe_exists, process_lines, batch_left, active_processes,
                   waiting_files, completed_count, last_check_time, row_counter,
                   csv_written, csv_rows, completed_names, pc, clock, ops,
                   last_call, launches, appended, line_text, fatal_error_detected,
                   forced, exit_status>>

\* lines 185-224: end of output without a fatal line; the exit code decides.
\* A nonzero exit code is an environment event.
RunnerExit(j) ==
    /\ ~RunEnded
    /\ rpc[j] = "reading"
    /\ \E returncode \in {0, 1} :
         /\ IF returncode = 0 THEN budget' = budget ELSE Event
         /\ update_queue' = update_queue \o
               << UpdateMsg(j, TerminalUpdate(ExitStatus(returncode), clock)),
                  CompletedMsg(j) >>
         /\ exit_status' = [exit_status EXCEPT ![j] = ExitStatus(returncode)]
    /\ completed_queue' = Append(completed_queue, j)
    /\ signals' = [signals EXCEPT ![j] = @ + 1]
    /\ temp_dir' = [temp_dir EXCEPT ![j] = "removed"]
    /\ cwd' = [cwd EXCEPT ![j] = "original_dir"]
    /\ rpc' = [rpc EXCEPT ![j] = "done"]
    /\ pending' = [pending EXCEPT ![j] = @ \o Emitted(update_queue, update_queue')]
    /\ UNCHANGED <<simulations, thread_running, idf_files, weather_file,
                   workers_given, requested_workers, available_cores, max_workers,
                   exe_exists, process_lines, batch_left, active_processes,
                   waiting_files, completed_count, last_check_time, row_counter,
                   csv_written, csv_rows, completed_names, pc, clock, ops,
                   last_call, launches, appended, line_text, fatal_error_detected,
                   forced>>

\* lines 226-248: an exception anywhere in the try (setup, launch or reading).
\* During setup it is raised by mkdtemp itself or after the directory exists.
\* The handler changes back to original_dir and leaves temp_dir alone.
RunnerException(j) ==
    /\ ~RunEnded
    /\ rpc[j] \in {"start", "reading"}
    /\ Event
    /\ update_queue' = update_queue \o
           (IF rpc[j] = "start" THEN << UpdateMsg(j, [status |-> "Initializing"]) >>
            ELSE << >>) \o
           << UpdateMsg(j, TerminalUpdate(FailedException, clock)), CompletedMsg(j) >>
    /\ completed_queue' = Append(completed_queue, j)
    /\ signals' = [signals EXCEPT ![j] = @ + 1]
    /\ IF rpc[j] = "start"
       THEN \E made \in {"none", "created"} : temp_dir' = [temp_dir EXCEPT ![j] = made]
       ELSE temp_dir' = temp_dir
    /\ cwd' = [cwd EXCEPT ![j] = "original_dir"]
    /\ rpc' = [rpc EXCEPT ![j] = "done"]
    /\ pending' = [pending EXCEPT ![j] = @ \o Emitted(update_queue, update_queue')]
    /\ UNCHANGED <<simulations, thread_running, idf_files, weather_file,
                   workers_given, requested_workers, available_cores, max_workers,
                   exe_exists, process_lines, batch_left, active_processes,
                   waiting_files, completed_count, last_check_time, row_counter,
                   csv_written, csv_rows, completed_names, pc, clock, ops,
                   last_call, launches, appended, line_text, fatal_error_detected,
                   forced, exit_status>>

\* the runner process is killed from outside (a crash)
RunnerKilled(j) ==
    /\ ~RunEnded
    /\ IsAlive(rpc, j)
    /\ Event
    /\ rpc' = [rpc EXCEPT ![j] = "dead"]
    /\ UNCHANGED <<simulations, update_queue, completed_queue, thread_running,
                   idf_files, weather_file, workers_given, requested_workers,
                   available_cores, max_workers, exe_exists, process_lines,
                   batch_left, active_processes, waiting_files, completed_count,
                   last_check_time, row_counter, csv_written, csv_rows,
                   completed_names, pc, clock, ops, last_call, signals, temp_dir,
                   cwd, pending, launches, appended, line_text,
                   fatal_error_detected, forced, exit_status>>

\* ------------------------------------------- eP_T.process_monitor (thread)
\* cpu percent and resident megabytes of a running process
CpuSamples == {[cpu |-> 1, memory |-> 1]}

\* lines 248-266: one sample of the external process
process_monitor(j) ==
    /\ ~RunEnded
    /\ rpc[j] = "reading"
    /\ Event
    /\ \E s \in CpuSamples :
         update_queue' = Append(update_queue, UpdateMsg(j, s))
    /\ pending' = [pending EXCEPT ![j] = @ \o Emitted(update_queue, update_queue')]
    /\ UNCHANGED <<simulations, completed_queue, thread_running, rpc, idf_files,
                   weather_file, workers_given, requested_workers, available_cores,
                   max_workers, exe_exists, process_lines, batch_left,
                   active_processes, waiting_files, completed_count,
                   last_check_time, row_counter, csv_written, csv_rows,
                   completed_names, pc, clock, ops, last_call, signals, temp_dir,
                   cwd, launches, appended, line_text, fatal_error_detected,
                   forced, exit_status>>

\* ---------------------------------------------- eP_T.update_process (thread)
\* eP_S lines 436-446: the second drain of the control loop takes the head of
\* update_queue and puts every message that is not COMPLETED back at the
\* tail.  Rotate(q, k) is the queue after k such iterations.
Rotate(q, k) == SubSeq(q, k + 1, Len(q)) \o SubSeq(q, 1, k)

\* the number of messages at the head of q that the second drain puts back
RECURSIVE Leading(_)
Leading(q) ==
    IF q = << >> \/ Head(q).type = "COMPLETED" THEN 0 ELSE 1 + Leading(Tail(q))

\* how far the queue can have been rotated when its head is taken next
Rotations ==
    IF pc = "drain2" /\ update_queue # << >>
    THEN 0..Min(Leading(update_queue), Len(update_queue) - 1)
    ELSE {0}

\* lines 277-303: the consumer thread takes the head of the queue and applies it
update_process ==
    /\ pc # "aborted"
    /\ thread_running
    /\ update_queue # << >>
    /\ \E k \in Rotations :
         LET q == Rotate(update_queue, k)
             message == Head(q)
         IN /\ thread_running' = (message.type # "DONE")
            /\ simulations' =
                 CASE message.type = "UPDATE" ->
                        update_simulation(simulations, message.name, message.updates, clock)
                   [] message.type = "LOG" ->
                        add_log(simulations, message.name, message.line, clock)
                   [] OTHER -> simulations
            /\ update_queue' = Tail(q)
            /\ pending' = Applied(pending, message)
    /\ UNCHANGED <<completed_queue, rpc, idf_files, weather_file, workers_given,
                   requested_workers, available_cores, max_workers, exe_exists,
                   process_lines, batch_left, active_processes, waiting_files,
                   completed_count, last_check_time, row_counter, csv_written,
                   csv_rows, completed_names, pc, clock, budget, ops, last_call,
                   signals, temp_dir, cwd, launches, appended, line_text,
                   fatal_error_detected, forced, exit_status>>

\* -------------------------------------------------------------------- time
TickSteps == {CheckInterval + 1, TimeoutSeconds + 1}

\* time passes
Tick ==
    /\ ~RunEnded
    /\ Event
    /\ \E d \in TickSteps : clock' = clock + d
    /\ UNCHANGED <<simulations, update_queue, completed_queue, thread_running, rpc,
                   idf_files, weather_file, workers_given, requested_workers,
                   available_cores, max_workers, exe_exists, process_lines,
                   batch_left, active_processes, waiting_files, completed_count,
                   last_check_time, row_counter, csv_written, csv_rows,
                   completed_names, pc, ops, last_call, signals, temp_dir, cwd,
                   pending, launches, appended, line_text, fatal_error_detected,
                   forced, exit_status>>

\* ------------------------------------------- eP_S.run_simulations: helpers
\* The part of the state one pass of the control loop reads and writes.
SchedState ==
    [sims |-> simulations, rp |-> rpc, active |-> active_processes,
     waiting |-> waiting_files, count |-> completed_count,
     written |-> csv_written, rows |-> csv_rows, rowc |-> row_counter,
     launched |-> launches]

\* lines 309-312: every job is registered
RECURSIVE Registered(_)
Registered(files) ==
    IF files = << >> THEN << >>
    ELSE add_simulation(Registered(SubSeq(files, 1, Len(files) - 1)),
                        files[Len(files)])

\* InvalidArguments without the weather file test
InvalidArgumentsFilesOnly(files, weather) == files = << >>

\* lines 262-268: not idf_files, or not weather_file or not os.path.exists(...)
InvalidArguments(files, weather) == files = << >> \/ weather # "exists"

\* lines 286-289
\* given is FALSE when max_workers is None
MaxWorkers(given, requested, cores, n) ==
    LET m == IF ~given THEN Max(1, cores - 1) ELSE requested
    IN Min(m, n)

\* WriteRow without `row_counter += 1`
WriteRowSameNumber(st, name) ==
    [st EXCEPT !.rows = Append(@, add_simulation_to_csv(name, st.sims[name], st.rowc)),
               !.written = @ \cup {name}]

\* add_simulation_to_csv(...); csv_written.add(name); row_counter += 1
WriteRow(st, name) ==
    [st EXCEPT !.rows = Append(@, add_simulation_to_csv(name, st.sims[name], st.rowc)),
               !.written = @ \cup {name},
               !.rowc = @ + 1]

\* the guard every write path of the loop applies
WriteOnce(st, name) ==
    IF name \in DOMAIN st.sims /\ name \notin st.written
    THEN WriteRow(st, name) ELSE st

\* lines 477-495 (and 531-549, 628-646): the next waiting job takes the slot
\* StartNext taking the last waiting file instead of the first
StartNextFromEnd(st, now) ==
    IF st.waiting = << >> THEN st
    ELSE LET next_name == st.waiting[Len(st.waiting)] IN
         [st EXCEPT !.waiting = SubSeq(@, 1, Len(@) - 1),
                    !.active = Append(@, [name |-> next_name, start_time |-> now]),
                    !.rp = [@ EXCEPT ![next_name] = "start"],
                    !.launched = [@ EXCEPT ![next_name] = @ + 1]]

\* StartNext leaving the launched file on the waiting list
StartNextKeepsWaiting(st, now) ==
    IF st.waiting = << >> THEN st
    ELSE LET next_name == Head(st.waiting) IN
         [st EXCEPT !.active = Append(@, [name |-> next_name, start_time |-> now]),
                    !.rp = [@ EXCEPT ![next_name] = "start"],
                    !.launched = [@ EXCEPT ![next_name] = @ + 1]]

\* active_processes[next_name] = {...}: a name that is already a key keeps
\* its place in the dict and gets the new process handle
StartNext(st, now) ==
    IF st.waiting = << >> THEN st
    ELSE LET next_name == Head(st.waiting)
             entry == [name |-> next_name, start_time |-> now]
         IN
         [st EXCEPT !.waiting = Tail(@),
                    !.active = IF next_name \in ActiveNames(@)
                               THEN [i \in 1..Len(@) |->
                                        IF @[i].name = next_name THEN entry ELSE @[i]]
                               ELSE Append(@, entry),
                    !.rp = [@ EXCEPT ![next_name] = "start"],
                    !.launched = [@ EXCEPT ![next_name] = @ + 1]]

\* RemoveActive that starts no replacement
RemoveActiveIdle(st, name, now) ==
    [st EXCEPT !.rp = Terminate(@, name),
               !.active = Without(@, name),
               !.count = @ + 1]

\* RemoveActive without `completed_count += 1`
RemoveActiveUncounted(st, name, now) ==
    StartNext([st EXCEPT !.rp = Terminate(@, name),
                         !.active = Without(@, name)], now)

\* RemoveActive without `del active_processes[name]`
RemoveActiveKeepsSlot(st, name, now) ==
    StartNext([st EXCEPT !.rp = Terminate(@, name),
                         !.count = @ + 1], now)

\* lines 451-495 (and 506-549, 612-646): the job's process is terminated, the
\* job leaves active_processes, the counter grows and the next job starts
RemoveActive(st, name, now) ==
    StartNext([st EXCEPT !.rp = Terminate(@, name),
                         !.active = Without(@, name),
                         !.count = @ + 1], now)

\* CompletedOne without the test `if name in active_processes`
CompletedOneUnguarded(st, name, now) ==
    RemoveActive(WriteOnce(st, name), name, now)

\* lines 449-495: one name of completed_names
CompletedOne(st, name, now) ==
    IF name \notin ActiveNames(st.active) THEN st
    ELSE RemoveActive(WriteOnce(st, name), name, now)

\* lines 504-549: the failed jobs found by the scan
RECURSIVE ProcessFailed(_, _, _)
ProcessFailed(st, names, now) ==
    IF names = << >> THEN st
    ELSE ProcessFailed(
            IF Head(names) \in ActiveNames(st.active)
            THEN RemoveActive(WriteOnce(st, Head(names)), Head(names), now)
            ELSE st,
            Tail(names), now)

\* lines 498-501: names in registration order
RECURSIVE FailedFrom(_, _, _)
FailedFrom(sims, active, j) ==
    IF j > NumJobs THEN << >>
    ELSE (IF j \in DOMAIN sims /\ j \in ActiveNames(active)
             /\ IsFailedOrParen(sims[j].status)
          THEN << j >> ELSE << >>) \o FailedFrom(sims, active, j + 1)

FailedNames(sims, active) == FailedFrom(sims, active, 1)

\* line 557: the active jobs stuck at Initializing with a nonzero error counter
StuckInitializing(st) ==
    {j \in ActiveNames(st.active) \cap DOMAIN st.sims :
        st.sims[j].status = "Initializing" /\ st.sims[j].errors > 0}

\* lines 555-563: Initializing with errors is forced to Failed
ForceInitializingFailed(st, now) ==
    [st EXCEPT !.sims =
        [j \in DOMAIN st.sims |->
            IF j \in ActiveNames(st.active) /\ st.sims[j].status = "Initializing"
               /\ st.sims[j].errors > 0
            THEN update_simulation(st.sims, j,
                    [status |-> FailedBare, progress |-> 100, cpu |-> 0, memory |-> 0],
                    now)[j]
            ELSE st.sims[j]]]

\* lines 571-584: a process that is no longer alive
DeadProcess(st, name, now) ==
    LET s1 == IF name \in DOMAIN st.sims /\ st.sims[name].status = "Initializing"
              THEN [st EXCEPT !.sims = update_simulation(st.sims, name,
                        [status |-> FailedDied, progress |-> 100, cpu |-> 0, memory |-> 0],
                        now)]
              ELSE st
    IN WriteOnce(s1, name)

\* lines 566-607: the scan of active_processes.  The call at line 591 passes
\* the updates as a positional dict to update_simulation(self, idf_name,
\* **kwargs): it raises TypeError, which ends the scan and the control loop.
RECURSIVE SweepScan(_, _, _)
SweepScan(acc, todo, now) ==
    IF todo = << >> \/ acc.raised THEN acc
    ELSE
      LET name == Head(todo).name
          dead == ~IsAlive(acc.st.rp, name)
          a1 == IF dead
                THEN [acc EXCEPT !.to_remove = Append(@, name),
                                 !.st = DeadProcess(acc.st, name, now)]
                ELSE acc
          timed == now - Head(todo).start_time > TimeoutSeconds
          a2 == IF timed /\ name \notin SeqToSet(a1.to_remove)
                THEN [a1 EXCEPT !.to_remove = Append(@, name), !.raised = TRUE]
                ELSE a1
      IN SweepScan(a2, Tail(todo), now)

\* lines 610-646
RECURSIVE RemoveAll(_, _, _)
RemoveAll(st, names, now) ==
    IF names = << >> THEN st
    ELSE RemoveAll(IF Head(names) \in ActiveNames(st.active)
                   THEN RemoveActive(st, Head(names), now)
                   ELSE st,
                   Tail(names), now)

\* lines 665-666 and 672-676: every active process is terminated
RECURSIVE TerminateAll(_, _)
TerminateAll(rp, active) ==
    IF active = << >> THEN rp
    ELSE TerminateAll(Terminate(rp, Head(active).name), Tail(active))

\* lines 685-691: the final pass numbers its rows by len(csv_written)
RECURSIVE FinalRows(_, _)
FinalRows(st, files) ==
    IF files = << >> THEN st
    ELSE LET idf_name == Head(files) IN
         FinalRows(
            IF idf_name \notin st.written /\ idf_name \in DOMAIN st.sims
            THEN [st EXCEPT
                    !.rows = Append(@, add_simulation_to_csv(idf_name, st.sims[idf_name],
                                                             Cardinality(st.written))),
                    !.written = @ \cup {idf_name}]
            ELSE st,
            Tail(files))

\* the scheduler's variables after a pass that ended in state st
Commit(st) ==
    /\ simulations' = st.sims
    /\ rpc' = st.rp
    /\ active_processes' = st.active
    /\ waiting_files' = st.waiting
    /\ completed_count' = st.count
    /\ csv_written' = st.written
    /\ csv_rows' = st.rows
    /\ row_counter' = st.rowc
    /\ launches' = st.launched

\* line 365: while active_processes or waiting_files
LoopOrLeave(active, waiting) ==
    IF active # << >> \/ waiting # << >> THEN "drain1" ELSE "finally"


\* ------------------------------------------- eP_S.run_simulations: actions
InLoop == pc \in {"drain1", "cq", "drain2", "completed", "failed", "sweep"}

\* lines 262-268: the arguments are checked
Validate ==
    /\ pc = "validate"
    /\ pc' = IF InvalidArguments(idf_files, weather_file) THEN "returned" ELSE "admit"
    /\ UNCHANGED <<simulations, update_queue, completed_queue, thread_running, rpc,
                   idf_files, weather_file, workers_given, requested_workers,
                   available_cores, max_workers, exe_exists, process_lines,
                   batch_left, active_processes, waiting_files, completed_count,
                   last_check_time, row_counter, csv_written, csv_rows,
                   completed_names, clock, budget, ops, last_call, signals,
                   temp_dir, cwd, pending, launches, appended, line_text,
                   fatal_error_detected, forced, exit_status>>

\* lines 284-289: the concurrency limit, which fixes the range of the initial
\* batch (line 343)
SetLimit ==
    /\ pc = "admit"
    /\ max_workers' = MaxWorkers(workers_given, requested_workers, available_cores,
                                 Len(idf_files))
    /\ batch_left' = Max(0, Min(max_workers', Len(idf_files)))
    /\ pc' = "admitted"
    /\ UNCHANGED <<simulations, update_queue, completed_queue, thread_running, rpc,
                   idf_files, weather_file, workers_given, requested_workers,
                   available_cores, exe_exists, process_lines, active_processes,
                   waiting_files, completed_count, last_check_time, row_counter,
                   csv_written, csv_rows, completed_names, clock, budget, ops,
                   last_call, signals, temp_dir, cwd, pending, launches, appended,
                   line_text, fatal_error_detected, forced, exit_status>>

\* lines 309-312 and 333: every submitted file is registered under its derived
\* name and the waiting list is filled
Register ==
    /\ pc = "admitted"
    /\ simulations' = Registered(idf_files)
    /\ waiting_files' = idf_files
    /\ pc' = "launch"
    /\ UNCHANGED <<update_queue, completed_queue, thread_running, rpc, idf_files,
                   weather_file, workers_given, requested_workers, available_cores,
                   max_workers, exe_exists, process_lines, batch_left,
                   active_processes, completed_count, last_check_time, row_counter,
                   csv_written, csv_rows, completed_names, clock, budget, ops,
                   last_call, signals, temp_dir, cwd, pending, launches, appended,
                   line_text, fatal_error_detected, forced, exit_status>>

\* lines 343-359: one iteration of the initial batch
InitialBatch ==
    /\ pc = "launch"
    /\ batch_left > 0
    /\ batch_left' = batch_left - 1
    /\ Commit(StartNext(SchedState, clock))
    /\ UNCHANGED <<update_queue, completed_queue, thread_running, idf_files,
                   weather_file, workers_given, requested_workers, available_cores,
                   max_workers, exe_exists, process_lines, last_check_time,
                   completed_names, pc, clock, budget, ops, last_call, signals,
                   temp_dir, cwd, pending, appended, line_text,
                   fatal_error_detected, forced, exit_status>>

\* lines 362-365: the try block and the control loop are entered
EnterLoop ==
    /\ pc = "launch"
    /\ batch_left = 0
    /\ pc' = LoopOrLeave(active_processes, waiting_files)
    /\ UNCHANGED <<simulations, update_queue, completed_queue, thread_running, rpc,
                   idf_files, weather_file, workers_given, requested_workers,
                   available_cores, max_workers, exe_exists, process_lines,
                   batch_left, active_processes, waiting_files, completed_count,
                   last_check_time, row_counter, csv_written, csv_rows,
                   completed_names, clock, budget, ops, last_call, signals,
                   temp_dir, cwd, pending, launches, appended, line_text,
                   fatal_error_detected, forced, exit_status>>

\* lines 378-398: an UPDATE message taken by the control loop
HandleUpdate(st, message, now) ==
    LET idf_name == message.name
        updates == message.updates
        is_failure_update == "status" \in DOMAIN updates
                             /\ IsFailedOrParen(updates.status)
        s1 == [st EXCEPT !.sims = update_simulation(st.sims, idf_name, updates, now)]
    IN IF is_failure_update /\ "end_time" \in DOMAIN updates
          /\ idf_name \notin s1.written /\ idf_name \in ActiveNames(s1.active)
       THEN WriteRow(s1, idf_name)
       ELSE s1

\* lines 400-416: a LOG message taken by the control loop
HandleLog(st, message, now) ==
    LET idf_name == message.name
        s1 == [st EXCEPT !.sims = add_log(st.sims, idf_name, message.line, now)]
    IN IF message.line.rfatal /\ idf_name \in ActiveNames(s1.active)
       THEN LET s2 == [s1 EXCEPT !.sims = update_simulation(s1.sims, idf_name,
                            [status |-> FailedFatal, progress |-> 100], now)]
            IN IF idf_name \notin s2.written THEN WriteRow(s2, idf_name) ELSE s2
       ELSE s1

\* lines 367-423: the first drain takes one message, or finds the queue empty.
\* A COMPLETED message taken here is dropped.
Drain1 ==
    /\ pc = "drain1"
    /\ IF update_queue = << >>
       THEN /\ pc' = "cq"
            /\ UNCHANGED <<update_queue, simulations, row_counter, csv_written, csv_rows,
                           pending>>
       ELSE LET message == Head(update_queue) IN
            /\ update_queue' = Tail(update_queue)
            /\ pending' = Applied(pending, message)
            /\ pc' = IF message.type = "DONE" THEN "cq" ELSE "drain1"
            /\ LET st == CASE message.type = "UPDATE" -> HandleUpdate(SchedState, message, clock)
                           [] message.type = "LOG" -> HandleLog(SchedState, message, clock)
                           [] OTHER -> SchedState
               IN /\ simulations' = st.sims
                  /\ row_counter' = st.rowc
                  /\ csv_written' = st.written
                  /\ csv_rows' = st.rows
    /\ UNCHANGED <<completed_queue, thread_running, rpc, idf_files, weather_file,
                   workers_given, requested_workers, available_cores, max_workers,
                   exe_exists, process_lines, batch_left, active_processes,
                   waiting_files, completed_count, last_check_time,
                   completed_names, clock, budget, ops, last_call, signals,
                   temp_dir, cwd, launches, appended, line_text,
                   fatal_error_detected, forced, exit_status>>

\* lines 425-433: completed_queue is emptied into completed_names
DrainCompletedQueue ==
    /\ pc = "cq"
    /\ completed_names' = completed_queue
    /\ completed_queue' = << >>
    /\ pc' = "drain2"
    /\ UNCHANGED <<simulations, update_queue, thread_running, rpc, idf_files,
                   weather_file, workers_given, requested_workers, available_cores,
                   max_workers, exe_exists, process_lines, batch_left,
                   active_processes, waiting_files, completed_count,
                   last_check_time, row_counter, csv_written, csv_rows, clock,
                   budget, ops, last_call, signals, temp_dir, cwd, pending,
                   launches, appended, line_text, fatal_error_detected, forced,
                   exit_status>>

\* lines 435-446: the second drain puts back the messages ahead of the first
\* COMPLETED message and takes that one, or finds the queue empty.  While
\* only other messages are queued it keeps taking and putting them back.
Drain2 ==
    /\ pc = "drain2"
    /\ IF update_queue = << >>
       THEN /\ pc' = "completed"
            /\ UNCHANGED <<update_queue, completed_names>>
       ELSE LET q == Rotate(update_queue, Leading(update_queue))
                message == Head(q)
            IN /\ Leading(update_queue) < Len(update_queue)
               /\ pc' = pc
               /\ update_queue' = Tail(q)
               /\ completed_names' =
                    IF message.name \in SeqToSet(completed_names)
                    THEN completed_names
                    ELSE Append(completed_names, message.name)
    /\ UNCHANGED <<simulations, completed_queue, thread_running, rpc, idf_files,
                   weather_file, workers_given, requested_workers, available_cores,
                   max_workers, exe_exists, process_lines, batch_left,
                   active_processes, waiting_files, completed_count,
                   last_check_time, row_counter, csv_written, csv_rows, clock,
                   budget, ops, last_call, signals, temp_dir, cwd, pending,
                   launches, appended, line_text, fatal_error_detected, forced,
                   exit_status>>

\* lines 448-495: the next name of completed_names is processed
ProcessCompleted ==
    /\ pc = "completed"
    /\ IF completed_names = << >>
       THEN /\ pc' = "failed"
            /\ UNCHANGED <<simulations, rpc, active_processes, waiting_files,
                           completed_count, csv_written, csv_rows, row_counter,
                           launches, completed_names>>
       ELSE /\ Commit(CompletedOne(SchedState, Head(completed_names), clock))
            /\ completed_names' = Tail(completed_names)
            /\ pc' = pc
    /\ UNCHANGED <<update_queue, completed_queue, thread_running, idf_files,
                   weather_file, workers_given, requested_workers, available_cores,
                   max_workers, exe_exists, process_lines, batch_left,
                   last_check_time, clock, budget, ops, last_call, signals,
                   temp_dir, cwd, pending, appended, line_text,
                   fatal_error_detected, forced, exit_status>>

\* lines 497-549: the scan for active jobs whose status is Failed
FailedScan ==
    /\ pc = "failed"
    /\ Commit(ProcessFailed(SchedState,
                            FailedNames(simulations, active_processes), clock))
    /\ pc' = "sweep"
    /\ forced' = {}
    /\ UNCHANGED <<update_queue, completed_queue, thread_running, idf_files,
                   weather_file, workers_given, requested_workers, available_cores,
                   max_workers, exe_exists, process_lines, batch_left,
                   last_check_time, completed_names, clock, budget, ops, last_call,
                   signals, temp_dir, cwd, pending, appended, line_text,
                   fatal_error_detected, exit_status>>

\* lines 551-656: the periodic sweep, then the end of the iteration
Sweep ==
    /\ pc = "sweep"
    /\ IF clock - last_check_time > CheckInterval
       THEN LET s1 == ForceInitializingFailed(SchedState, clock)
                acc == SweepScan([st |-> s1, to_remove |-> << >>, raised |-> FALSE],
                                 s1.active, clock)
            IN IF acc.raised
               THEN /\ Commit(acc.st)
                    /\ pc' = "finally"
                    /\ forced' = StuckInitializing(SchedState)
                    /\ UNCHANGED last_check_time
               ELSE LET s2 == RemoveAll(acc.st, acc.to_remove, clock) IN
                    /\ Commit(s2)
                    /\ last_check_time' = clock
                    /\ forced' = StuckInitializing(SchedState)
                    /\ pc' = LoopOrLeave(s2.active, s2.waiting)
       ELSE /\ pc' = LoopOrLeave(active_processes, waiting_files)
            /\ UNCHANGED <<simulations, rpc, active_processes, waiting_files,
                           completed_count, csv_written, csv_rows, row_counter,
                           launches, last_check_time, forced>>
    /\ UNCHANGED <<update_queue, completed_queue, thread_running, idf_files,
                   weather_file, workers_given, requested_workers, available_cores,
                   max_workers, exe_exists, process_lines, batch_left,
                   completed_names, clock, budget, ops, last_call, signals,
                   temp_dir, cwd, pending, appended, line_text,
                   fatal_error_detected, exit_status>>

\* KeyboardInterrupt.  Inside the try (lines 662-666) the handler terminates
\* the active processes and the finally block follows; during the initial
\* batch (lines 343-359, before the try at line 362) nothing catches it.
Interrupt ==
    /\ pc = "launch" \/ InLoop
    /\ Event
    /\ IF pc = "launch"
       THEN /\ pc' = "aborted"
            /\ rpc' = rpc
       ELSE /\ pc' = "finally"
            /\ rpc' = TerminateAll(rpc, active_processes)
    /\ UNCHANGED <<simulations, update_queue, completed_queue, thread_running,
                   idf_files, weather_file, workers_given, requested_workers,
                   available_cores, max_workers, exe_exists, process_lines,
                   batch_left, active_processes, waiting_files, completed_count,
                   last_check_time, row_counter, csv_written, csv_rows,
                   completed_names, clock, ops, last_call, signals, temp_dir, cwd,
                   pending, launches, appended, line_text, fatal_error_detected,
                   forced, exit_status>>

\* lines 670-691: the finally block
Finally ==
    /\ pc = "finally"
    /\ update_queue' = Append(update_queue, DoneMsg)
    /\ LET st == FinalRows([SchedState EXCEPT
                               !.rp = TerminateAll(rpc, active_processes)], idf_files)
       IN /\ rpc' = st.rp
          /\ csv_written' = st.written
          /\ csv_rows' = st.rows
    /\ pc' = "done"
    /\ UNCHANGED <<simulations, completed_queue, thread_running, idf_files,
                   weather_file, workers_given, requested_workers, available_cores,
                   max_workers, exe_exists, process_lines, batch_left,
                   active_processes, waiting_files, completed_count,
                   last_check_time, row_counter, completed_names, clock, budget,
                   ops, last_call, signals, temp_dir, cwd, pending, launches,
                   appended, line_text, fatal_error_detected, forced, exit_status>>

\* ------------------------------------------------ the store used on its own
NoCall == [op |-> "none", name |-> 0, updates |-> NoUpdates, line |-> PlainLine]

\* the keyword arguments the program passes to update_simulation
\* (eP_S lines 64, 119, 87-91, 171-176, 196-210, 559, 577; eP_T lines 261-265)
StoreUpdates(now) ==
    {[status |-> "Initializing"], [status |-> "Running"]}
    \cup CpuSamples
    \cup {TerminalUpdate(s, now) : s \in {"Completed", FailedFatal}}
    \cup {[status |-> s, progress |-> 100, cpu |-> 0, memory |-> 0] :
               s \in {FailedBare, FailedDied}}

\* the times at which the next store call can happen
StoreTimes == {clock, clock + 1}

\* eP_T lines 43-56: one call of update_simulation
StoreUpdate ==
    /\ ops < MaxStoreOps
    /\ ops' = ops + 1
    /\ \E idf_name \in DOMAIN simulations, now \in StoreTimes :
         \E kwargs \in StoreUpdates(now) :
            /\ simulations' = update_simulation(simulations, idf_name, kwargs, now)
            /\ clock' = now
            /\ last_call' = [op |-> "update_simulation", name |-> idf_name,
                             updates |-> kwargs, line |-> PlainLine]
    /\ UNCHANGED <<update_queue, completed_queue, thread_running, rpc, idf_files,
                   weather_file, workers_given, requested_workers, available_cores,
                   max_workers, exe_exists, process_lines, batch_left,
                   active_processes, waiting_files, completed_count,
                   last_check_time, row_counter, csv_written, csv_rows,
                   completed_names, pc, budget, signals, temp_dir, cwd, pending,
                   launches, appended, line_text, fatal_error_detected, forced,
                   exit_status>>

\* eP_T lines 58-112: one call of add_log
StoreLog ==
    /\ ops < MaxStoreOps
    /\ ops' = ops + 1
    /\ \E idf_name \in DOMAIN simulations, now \in StoreTimes, line \in AllLines :
         /\ simulations' = add_log(simulations, idf_name, line, now)
         /\ clock' = now
         /\ last_call' = [op |-> "add_log", name |-> idf_name,
                          updates |-> NoUpdates, line |-> line]
         /\ appended' = [appended EXCEPT ![idf_name] = Append(@, line)]
    /\ UNCHANGED <<update_queue, completed_queue, thread_running, rpc, idf_files,
                   weather_file, workers_given, requested_workers, available_cores,
                   max_workers, exe_exists, process_lines, batch_left,
                   active_processes, waiting_files, completed_count,
                   last_check_time, row_counter, csv_written, csv_rows,
                   completed_names, pc, budget, signals, temp_dir, cwd, pending,
                   launches, line_text, fatal_error_detected, forced, exit_status>>

\* eP_T lines 27-41: one call of add_simulation, with a new or a known name
StoreRegister ==
    /\ ops < MaxStoreOps
    /\ ops' = ops + 1
    /\ \E idf_name \in Jobs :
         /\ simulations' = add_simulation(simulations, idf_name)
         /\ last_call' = [op |-> "add_simulation", name |-> idf_name,
                          updates |-> NoUpdates, line |-> PlainLine]
         /\ appended' = [appended EXCEPT ![idf_name] = << >>]
    /\ UNCHANGED <<update_queue, completed_queue, thread_running, rpc, idf_files,
                   weather_file, workers_given, requested_workers, available_cores,
                   max_workers, exe_exists, process_lines, batch_left,
                   active_processes, waiting_files, completed_count,
                   last_check_time, row_counter, csv_written, csv_rows,
                   completed_names, pc, clock, budget, signals, temp_dir, cwd,
                   pending, launches, line_text, fatal_error_detected, forced,
                   exit_status>>

\* eP_S lines 146-156 and eP_T lines 58-112: the runner tests the line it
\* forwards, and the store tests it in add_log
ClassifyLine ==
    /\ pc = "classify"
    /\ fatal_error_detected' = RunnerFatal(line_text)
    /\ simulations' = add_log(simulations, 1, LineOf(line_text), clock)
    /\ pc' = "classified"
    /\ UNCHANGED <<update_queue, completed_queue, thread_running, rpc, idf_files,
                   weather_file, workers_given, requested_workers, available_cores,
                   max_workers, exe_exists, process_lines, batch_left,
                   active_processes, waiting_files, completed_count,
                   last_check_time, row_counter, csv_written, csv_rows,
                   completed_names, clock, budget, ops, last_call, signals,
                   temp_dir, cwd, pending, launches, appended, line_text, forced,
                   exit_status>>

\* the lines of a long log: two shapes tell the positions apart
LogLines == {PlainLine, WarningLine}

\* eP_T lines 58-112: one call of add_log in a long sequence of calls
LogAppend ==
    /\ ops < MaxLogOps
    /\ ops' = ops + 1
    /\ \E idf_name \in DOMAIN simulations, line \in LogLines :
         /\ simulations' = add_log(simulations, idf_name, line, clock)
         /\ last_call' = [op |-> "add_log", name |-> idf_name,
                          updates |-> NoUpdates, line |-> line]
         /\ appended' = [appended EXCEPT ![idf_name] = Append(@, line)]
    /\ UNCHANGED <<update_queue, completed_queue, thread_running, rpc, idf_files,
                   weather_file, workers_given, requested_workers, available_cores,
                   max_workers, exe_exists, process_lines, batch_left,
                   active_processes, waiting_files, completed_count,
                   last_check_time, row_counter, csv_written, csv_rows,
                   completed_names, pc, clock, budget, signals, temp_dir, cwd,
                   pending, launches, line_text, fatal_error_detected, forced,
                   exit_status>>

\* ----------------------------------------------------------- specification
RECURSIVE Upto(_, _)
Upto(a, b) == IF a > b THEN << >> ELSE << a >> \o Upto(a + 1, b)

\* nothing has run yet
InitIdle ==
    /\ update_queue = << >>
    /\ completed_queue = << >>
    /\ thread_running = TRUE
    /\ rpc = [j \in Jobs |-> "idle"]
    /\ active_processes = << >>
    /\ completed_count = 0
    /\ clock = 1
    /\ last_check_time = 1
    /\ row_counter = 0
    /\ csv_written = {}
    /\ csv_rows = << >>
    /\ completed_names = << >>
    /\ ops = 0
    /\ last_call = NoCall
    /\ signals = [j \in Jobs |-> 0]
    /\ temp_dir = [j \in Jobs |-> "none"]
    /\ cwd = [j \in Jobs |-> "original_dir"]
    /\ pending = [j \in Jobs |-> << >>]
    /\ launches = [j \in Jobs |-> 0]
    /\ appended = [j \in Jobs |-> << >>]
    /\ fatal_error_detected = FALSE
    /\ forced = {}
    /\ exit_status = [j \in Jobs |-> "none"]

\* run_simulations just before the initial batch, with valid arguments
InitCommon ==
    /\ weather_file = "exists"
    /\ line_text = << >>
    /\ simulations = Registered(idf_files)
    /\ batch_left = Max(0, Min(max_workers, Len(idf_files)))
    /\ waiting_files = idf_files
    /\ InitIdle

\* a run over at most NumJobs jobs
Init ==
    /\ \E n \in 1..NumJobs : idf_files = Upto(1, n)
    /\ requested_workers \in 1..MaxRequested
    /\ workers_given = TRUE
    /\ available_cores = MaxCores
    /\ max_workers = MaxWorkers(workers_given, requested_workers, available_cores,
                                Len(idf_files))
    /\ exe_exists \in BOOLEAN
    /\ process_lines = SchedulingLines
    /\ budget = MaxEvents
    /\ pc = "launch"
    /\ InitCommon

\* a run over one job, with more environment events
InitJob ==
    /\ idf_files = << 1 >>
    /\ requested_workers = 1
    /\ workers_given = TRUE
    /\ available_cores = MaxCores
    /\ max_workers = MaxWorkers(workers_given, requested_workers, available_cores,
                                Len(idf_files))
    /\ exe_exists \in BOOLEAN
    /\ process_lines = ProcessLines
    /\ budget = MaxJobEvents
    /\ pc = "launch"
    /\ InitCommon

Next ==
    \/ \E j \in Jobs : RunnerStart(j)
    \/ \E j \in Jobs : RunnerReadLine(j)
    \/ \E j \in Jobs : RunnerExit(j)
    \/ \E j \in Jobs : RunnerException(j)
    \/ \E j \in Jobs : RunnerKilled(j)
    \/ \E j \in Jobs : process_monitor(j)
    \/ update_process
    \/ Tick
    \/ InitialBatch
    \/ EnterLoop
    \/ Drain1
    \/ DrainCompletedQueue
    \/ Drain2
    \/ ProcessCompleted
    \/ FailedScan
    \/ Sweep
    \/ Interrupt
    \/ Finally

\* the store after registration of one job, under any sequence of calls
InitStore ==
    /\ idf_files = << 1 >>
    /\ requested_workers = 1
    /\ workers_given = TRUE
    /\ available_cores = MaxCores
    /\ max_workers = MaxWorkers(workers_given, requested_workers, available_cores,
                                Len(idf_files))
    /\ exe_exists = TRUE
    /\ process_lines = AllLines
    /\ budget = 0
    /\ pc = "store"
    /\ InitCommon

NextStore ==
    \/ StoreUpdate
    \/ StoreLog

\* the store under update, log and registration calls in any order
NextRegister ==
    \/ StoreUpdate
    \/ StoreLog
    \/ StoreRegister

\* the store after registration of one job, under a long sequence of add_log
InitLog ==
    /\ idf_files = << 1 >>
    /\ requested_workers = 1
    /\ workers_given = TRUE
    /\ available_cores = MaxCores
    /\ max_workers = MaxWorkers(workers_given, requested_workers, available_cores,
                                Len(idf_files))
    /\ exe_exists = TRUE
    /\ process_lines = LogLines
    /\ budget = 0
    /\ pc = "store"
    /\ InitCommon

NextLog == LogAppend

\* every line of at most MaxTokens tokens, read by the runner of one job
InitFatal ==
    /\ idf_files = << 1 >>
    /\ requested_workers = 1
    /\ workers_given = TRUE
    /\ available_cores = MaxCores
    /\ max_workers = MaxWorkers(workers_given, requested_workers, available_cores,
                                Len(idf_files))
    /\ exe_exists = TRUE
    /\ process_lines = SchedulingLines
    /\ budget = 0
    /\ pc = "classify"
    /\ weather_file = "exists"
    /\ simulations = Registered(idf_files)
    /\ batch_left = 0
    /\ waiting_files = << >>
    /\ line_text \in UNION {[1..k -> Tokens] : k \in 0..MaxTokens}
    /\ InitIdle

NextFatal == ClassifyLine

\* every line of at most MaxTokens of the tokens the counters depend on,
\* passed to add_log for a job that has counted nothing yet
InitCount ==
    /\ idf_files = << 1 >>
    /\ requested_workers = 1
    /\ workers_given = TRUE
    /\ available_cores = MaxCores
    /\ max_workers = MaxWorkers(workers_given, requested_workers, available_cores,
                                Len(idf_files))
    /\ exe_exists = TRUE
    /\ process_lines = SchedulingLines
    /\ budget = 0
    /\ pc = "classify"
    /\ weather_file = "exists"
    /\ simulations = Registered(idf_files)
    /\ batch_left = 0
    /\ waiting_files = << >>
    /\ line_text \in UNION {[1..k -> CountTokens] : k \in 0..MaxTokens}
    /\ InitIdle

\* the arguments of run_simulations before the limit is computed: any requested
\* limit (or none), any core count, any non-empty job list
InitLimit ==
    /\ \E n \in 1..MaxFiles : idf_files = Upto(1, n)
    /\ workers_given \in BOOLEAN
    /\ requested_workers \in (0 - MaxCores)..(MaxCores + 1)
    /\ available_cores \in 1..MaxCores
    /\ max_workers = requested_workers
    /\ exe_exists = TRUE
    /\ process_lines = SchedulingLines
    /\ budget = 0
    /\ pc = "admit"
    /\ weather_file = "exists"
    /\ simulations = << >>
    /\ batch_left = 0
    /\ waiting_files = << >>
    /\ line_text = << >>
    /\ InitIdle

NextLimit == SetLimit

\* every list of at most n files over the job names, repeated names included
AllLists(n) == UNION {[1..k -> Jobs] : k \in 0..n}

\* run_simulations as called: any file list, any weather file argument
InitAdmit ==
    /\ idf_files \in AllLists(MaxFiles)
    /\ weather_file \in {"none", "missing", "exists"}
    /\ workers_given = TRUE
    /\ requested_workers \in 1..MaxRequested
    /\ available_cores = MaxCores
    /\ max_workers = requested_workers
    /\ exe_exists = TRUE
    /\ process_lines = SchedulingLines
    /\ budget = 0
    /\ pc = "validate"
    /\ simulations = << >>
    /\ batch_left = 0
    /\ waiting_files = << >>
    /\ line_text = << >>
    /\ InitIdle

\* the calls of run_simulations up to the end of the initial batch
NextAdmit ==
    \/ Validate
    \/ SetLimit
    \/ Register
    \/ InitialBatch

\* a run that no outside event disturbs: every process prints nothing and exits
\* with code 0, or the executable is missing; any requested limit from 0 up
InitLive ==
    /\ \E n \in 1..NumJobs : idf_files = Upto(1, n)
    /\ workers_given = TRUE
    /\ requested_workers \in 0..MaxRequested
    /\ available_cores = MaxCores
    /\ max_workers = MaxWorkers(workers_given, requested_workers, available_cores,
                                Len(idf_files))
    /\ exe_exists \in BOOLEAN
    /\ process_lines = SchedulingLines
    /\ budget = 0
    /\ pc = "launch"
    /\ InitCommon

\* the steps of run_simulations
Scheduler ==
    \/ InitialBatch
    \/ EnterLoop
    \/ Drain1
    \/ DrainCompletedQueue
    \/ Drain2
    \/ ProcessCompleted
    \/ FailedScan
    \/ Sweep
    \/ Finally

\* the steps of one runner process that no outside event is needed for
Runner(j) == RunnerStart(j) \/ RunnerExit(j)

NextLive ==
    \/ Scheduler
    \/ update_process
    \/ \E j \in Jobs : Runner(j)

\* the control loop, the consumer thread and every launched runner keep
\* taking steps
Fairness ==
    /\ WF_vars(Scheduler)
    /\ WF_vars(update_process)
    /\ \A j \in Jobs : WF_vars(Runner(j))

\* the control loop and every launched runner keep taking steps; nothing is
\* assumed about how often the consumer thread gets to take a message
FairnessLoop ==
    /\ WF_vars(Scheduler)
    /\ \A j \in Jobs : WF_vars(Runner(j))

Spec == Init /\ [][Next]_vars

SpecJob == InitJob /\ [][Next]_vars

SpecStore == InitStore /\ [][NextStore]_vars

SpecRegister == InitStore /\ [][NextRegister]_vars

SpecLog == InitLog /\ [][NextLog]_vars

SpecFatal == InitFatal /\ [][NextFatal]_vars

SpecCount == InitCount /\ [][NextFatal]_vars

SpecLimit == InitLimit /\ [][NextLimit]_vars

SpecAdmit == InitAdmit /\ [][NextAdmit]_vars

SpecLive == InitLive /\ [][NextLive]_vars /\ Fairness

SpecDrain == InitLive /\ [][NextLive]_vars /\ FairnessLoop

\* ------------------------------------------------------------------ claims
\* the number of rows of the result file for one job
RowsFor(name) ==
    Cardinality({i \in 1..Len(csv_rows) : csv_rows[i].job = name})

Submitted == SeqToSet(idf_files)
Launched == {j \in Jobs : rpc[j] # "idle"}

\* C1: once the run has ended (normally, by interrupt or by an exception in
\* the control loop) the result file holds exactly one row for every
\* submitted job.
C1_OneRowPerJob ==
    RunEnded => \A j \in Submitted : RowsFor(j) = 1

\* C2: the number of active jobs is at most min(requested limit, job count)
\* in every reachable state.
C2_ActiveBound ==
    Len(active_processes) <= Min(requested_workers, Len(idf_files))

\* a replacement job holds the only slot after the first job was removed
C2_Witness ==
    /\ requested_workers = 1
    /\ Len(idf_files) = 2
    /\ completed_count = 1
    /\ ActiveNames(active_processes) = {2}

\* C3: completion signals delivered more than once for a job write one row
\* for it, remove it from the active set once, count it once and launch at
\* most one replacement: no job has two rows, a removed job has exactly one
\* row, no job is active twice, the counter equals the number of jobs that
\* were launched and are no longer active, and the jobs launched are at most
\* the worker limit plus the counter.
C3_SignalIdempotent ==
    /\ \A j \in Jobs : RowsFor(j) <= 1
    /\ \A j \in Launched \ ActiveNames(active_processes) : RowsFor(j) = 1
    /\ Cardinality(ActiveNames(active_processes)) = Len(active_processes)
    /\ ActiveNames(active_processes) \subseteq Launched
    /\ completed_count = Cardinality(Launched \ ActiveNames(active_processes))
    /\ Cardinality(Launched) <= max_workers + completed_count

\* a second signal for job 1 is the next one processed, after the first one
\* removed the job, wrote its row and launched job 2
C3_Witness ==
    /\ pc = "completed"
    /\ completed_names # << >>
    /\ Head(completed_names) = 1
    /\ 1 \notin ActiveNames(active_processes)
    /\ RowsFor(1) = 1
    /\ completed_count = 1
    /\ 2 \in ActiveNames(active_processes)

\* C4: once a job's status is Completed or a Failed variant, no later step
\* changes it to Waiting, Initializing or Running.
C4_TerminalStays ==
    [][\A j \in DOMAIN simulations :
          Terminal(simulations[j].status)
             => simulations'[j].status \notin {"Waiting", "Initializing", "Running"}]_vars

\* C5: the stored progress of a job never decreases from one step to the next
\* while the job is not terminal.
C5_ProgressMonotone ==
    [][\A j \in DOMAIN simulations :
          (~Terminal(simulations[j].status) /\ ~Terminal(simulations'[j].status))
             => simulations'[j].progress >= simulations[j].progress]_vars

\* C6: a job whose status is Completed or a Failed variant has progress 100.
C6_TerminalProgress ==
    \A j \in DOMAIN simulations :
        Terminal(simulations[j].status) => simulations[j].progress = 100

\* C7: a job whose status is Completed or a Failed variant has cpu = 0 and
\* memory = 0.
C7_TerminalResources ==
    \A j \in DOMAIN simulations :
        Terminal(simulations[j].status)
           => simulations[j].cpu = 0 /\ simulations[j].memory = 0

\* C8: end_time is set only by a step that leaves the job terminal, is set by
\* every step that makes the job terminal, and never changes once set.
C8_EndTimeOnce ==
    [][\A j \in DOMAIN simulations :
          LET r == simulations[j]
              rn == simulations'[j]
          IN /\ (r.end_time = NoTime /\ rn.end_time # NoTime) => Terminal(rn.status)
             /\ (~Terminal(r.status) /\ Terminal(rn.status)) => rn.end_time # NoTime
             /\ r.end_time # NoTime => rn.end_time = r.end_time]_vars

\* the latest store call was update_simulation(j, status='Running')
RunningApplied(j) ==
    /\ last_call.op = "update_simulation"
    /\ last_call.name = j
    /\ "status" \in DOMAIN last_call.updates
    /\ last_call.updates.status = "Running"

\* C9: start_time is set by the first Running update applied to a job, to the
\* time of that call, by nothing else, and no later call changes it.
C9_StartTimeOnce ==
    [][\A j \in DOMAIN simulations :
          LET r == simulations[j]
              rn == simulations'[j]
          IN /\ r.start_time # NoTime => rn.start_time = r.start_time
             /\ (r.start_time = NoTime /\ RunningApplied(j)')
                   => rn.start_time = clock'
             /\ (r.start_time = NoTime /\ rn.start_time # NoTime)
                   => RunningApplied(j)']_vars

\* a second Running update was applied later than the first
C9_Witness ==
    /\ RunningApplied(1)
    /\ simulations[1].start_time # NoTime
    /\ simulations[1].start_time < clock

\* C10: start_time <= end_time whenever both are set.
C10_StartBeforeEnd ==
    \A j \in DOMAIN simulations :
        (simulations[j].start_time # NoTime /\ simulations[j].end_time # NoTime)
           => simulations[j].start_time <= simulations[j].end_time

\* the run is over and the consumer thread has applied every queued message
RunFinal == pc = "done" /\ ~thread_running

\* C11: every row of the result file has Progress = 1 exactly when the job's
\* status at the end of the run is Completed.
C11_ProgressIffCompleted ==
    RunFinal =>
       \A i \in 1..Len(csv_rows) :
           (csv_rows[i].progress = 1)
              <=> (simulations[csv_rows[i].job].status = "Completed")

\* C12: a runner that has returned has emitted the completion signal exactly
\* once, whichever path it took.
C12_OneSignal ==
    \A j \in Jobs : rpc[j] = "done" => signals[j] = 1

\* C13: once the store holds 'Failed (Fatal Error)' for a job, no later message
\* of that job changes the stored status, in whatever order the fatal LOG and
\* the Failed UPDATE are applied.
C13_FatalStatusStays ==
    [][\A j \in DOMAIN simulations :
          simulations[j].status = FailedFatal
             => simulations'[j].status = FailedFatal]_vars

\* a step of the control loop in which the periodic sweep runs its checks
SweepStep ==
    /\ pc = "sweep"
    /\ pc' # "sweep"
    /\ budget' = budget
    /\ clock - last_check_time > CheckInterval

\* the result file holds a row for the job with the given message
HasRow(rows, name, message) ==
    \E i \in 1..Len(rows) : rows[i].job = name /\ rows[i].message = message

\* the active job's process is gone while its status is not terminal
DiedUnfinished(j) ==
    /\ j \in ActiveNames(active_processes)
    /\ ~IsAlive(rpc, j)
    /\ simulations[j].status \in {"Waiting", "Initializing", "Running"}

\* C14: a sweep that finds an active job whose process is not alive and whose
\* status is Waiting, Initializing or Running sets the status to
\* 'Failed (Process died)', records a row with that status, removes the job
\* from the active set and launches the next waiting job.
C14_DeadProcessFailed ==
    [][SweepStep =>
         \A j \in Jobs :
            DiedUnfinished(j) =>
               /\ simulations'[j].status = FailedDied
               /\ j \notin csv_written => HasRow(csv_rows', j, FailedDied)
               /\ j \notin ActiveNames(active_processes')
               /\ waiting_files # << >> => Len(waiting_files') < Len(waiting_files)]_vars

\* the active job has been running for more than an hour
TimedOut(j) ==
    /\ j \in ActiveNames(active_processes)
    /\ IsAlive(rpc, j)
    /\ clock - ActiveEntry(active_processes, j).start_time > TimeoutSeconds

\* C15: a sweep that finds an active job older than 3600 s sets its status to
\* 'Failed (Timeout)', records it, removes it from the active set, launches the
\* next waiting job, and the control loop goes on.
C15_TimeoutFailed ==
    [][SweepStep =>
         \A j \in Jobs :
            TimedOut(j) =>
               /\ simulations'[j].status = FailedTimeout
               /\ j \notin csv_written => HasRow(csv_rows', j, FailedTimeout)
               /\ j \notin ActiveNames(active_processes')
               /\ waiting_files # << >> => Len(waiting_files') < Len(waiting_files)
               /\ pc' = LoopOrLeave(active_processes', waiting_files')]_vars

\* no outside event (kill, exception, interrupt, clock jump) has happened yet
Undisturbed == budget = MaxJobEvents

\* C16: with the EnergyPlus executable missing, and whatever the interleaving
\* of the runner's UPDATE, its completion signal and the two consumers, the job
\* is never Running and its row has Progress 0, the missing-executable
\* message, no warnings, no errors and a zero runtime.
C16_MissingExecutableRow ==
    (~exe_exists /\ Undisturbed) =>
       \A j \in DOMAIN simulations :
          /\ simulations[j].status # "Running"
          /\ \A i \in 1..Len(csv_rows) :
                csv_rows[i].job = j =>
                   /\ csv_rows[i].progress = 0
                   /\ csv_rows[i].message = FailedMissing
                   /\ csv_rows[i].warnings = 0
                   /\ csv_rows[i].errors = 0
                   /\ csv_rows[i].hours = 0
                   /\ csv_rows[i].minutes = 0
                   /\ csv_rows[i].seconds = 0

\* C17: for every requested limit r, core count c and job count n >= 1 the
\* concurrency limit is max(1, min(r, c - 1, n)); when no limit is requested it
\* is max(1, min(c - 1, n)).
C17_LimitFormula ==
    pc = "admitted" =>
       max_workers =
          IF workers_given
          THEN Max(1, Min(Min(requested_workers, available_cores - 1), Len(idf_files)))
          ELSE Max(1, Min(available_cores - 1, Len(idf_files)))

\* C18: when every launched runner eventually signals and the loop is scheduled
\* fairly, the run reaches, for every requested limit, a state where the active
\* set and the waiting queue are empty and the completed counter equals the
\* number of submitted jobs; the counter never decreases.
C18_RunDrains ==
    /\ <>(/\ active_processes = << >>
          /\ waiting_files = << >>
          /\ completed_count = Len(idf_files))
    /\ [][completed_count' >= completed_count]_vars

\* C19: a runner that has returned after creating its scratch directory has
\* deleted the directory and is back in its original working directory.
C19_ScratchRemoved ==
    \A j \in Jobs :
       (rpc[j] = "done" /\ temp_dir[j] # "none")
          => (temp_dir[j] = "removed" /\ cwd[j] = "original_dir")

\* C20: the UPDATE and LOG messages of each job are applied to the store in the
\* order its runner emitted them: a message that is applied is the oldest of
\* the job's messages not yet applied.
C20_EmissionOrder ==
    [][\A j \in Jobs :
          Len(pending'[j]) < Len(pending[j]) => pending'[j] = Tail(pending[j])]_vars

\* a step in which the operator's interrupt reaches run_simulations
InterruptStep == budget' < budget /\ pc' # pc

\* C21: an interrupt that arrives while jobs are active asks every active
\* process to terminate and leads into the final reconciliation pass, after
\* which every submitted job, launched or not, has exactly one row.
C21_InterruptReconciles ==
    /\ [][(InterruptStep /\ active_processes # << >>) =>
             /\ \A j \in ActiveNames(active_processes) : ~IsAlive(rpc', j)
             /\ pc' = "finally"]_vars
    /\ [](pc = "done" => \A j \in Submitted : RowsFor(j) = 1)

\* the runner of job j left through its exception handler: with the executable
\* present it is the only path that returns without the final cleanup
Raised(j) == exe_exists /\ rpc[j] = "done" /\ temp_dir[j] # "removed"

\* C22: an exception inside a runner makes the job's status a Failed variant
\* and emits its completion signal; the scheduler removes the job, records it
\* with Progress = 0, launches the waiting jobs and finishes the run.
C22_ExceptionContained ==
    \A j \in Jobs :
       Raised(j) =>
          /\ signals[j] >= 1
          /\ pending[j] = << >> => StartsWithFailed(simulations[j].status)
          /\ pc = "done" =>
                /\ j \notin ActiveNames(active_processes)
                /\ \E i \in 1..Len(csv_rows) : csv_rows[i].job = j
                /\ \A i \in 1..Len(csv_rows) :
                      csv_rows[i].job = j => csv_rows[i].progress = 0
                /\ Submitted \subseteq Launched

\* two submitted files have the same derived job name
HasDuplicate(files) ==
    \E i, k \in 1..Len(files) : i # k /\ files[i] = files[k]

\* run_simulations has not got past the check of its arguments
Rejected ==
    /\ pc \in {"validate", "returned"}
    /\ DOMAIN simulations = {}
    /\ Launched = {}

\* C23: a job list with two requests of the same derived name is rejected
\* before any job is launched: no process is started and no job record is
\* written over another.
C23_DuplicatesRejected == HasDuplicate(idf_files) => Rejected

\* C26: with an empty job list, or a weather file that is not given or does
\* not exist, run_simulations returns before registering any job record and
\* before launching any process.
C26_InvalidArgumentsReturn ==
    (idf_files = << >> \/ weather_file \in {"none", "missing"}) => Rejected

\* run_simulations has returned on an empty list and on a missing weather file
C26_Witness ==
    pc = "returned" /\ (idf_files = << >> \/ weather_file = "missing")

\* the control loop has ended because nothing is active and nothing waits
EndedNormally ==
    pc = "done" /\ active_processes = << >> /\ waiting_files = << >>

\* C24: no job is launched more than once, whatever failure it meets, and in
\* a run that ends normally every submitted job has been launched exactly once.
C24_LaunchedOnce ==
    /\ \A j \in Jobs : launches[j] <= 1
    /\ EndedNormally => \A j \in Submitted : launches[j] = 1

\* a run of NumJobs jobs has ended normally and one of the jobs had failed
C24_Witness ==
    /\ EndedNormally
    /\ Len(idf_files) = NumJobs
    /\ \E j \in Submitted :
          StartsWithFailed(simulations[j].status) /\ launches[j] = 1

\* the last n elements of s
LastN(s, n) == SubSeq(s, Len(s) - n + 1, Len(s))

\* C25: the recent-log buffer of a job never holds more than 10 lines, and
\* after any sequence of k appends it equals the last min(10, k) appended
\* lines in arrival order: a full buffer loses exactly its oldest line.
C25_LogBuffer ==
    \A j \in DOMAIN simulations :
       /\ Len(simulations[j].log) <= LogCapacity
       /\ simulations[j].log
             = LastN(appended[j], Min(LogCapacity, Len(appended[j])))

\* more than 10 lines were appended and the first of them has left the buffer
C25_Witness ==
    \E j \in DOMAIN simulations :
       /\ Len(appended[j]) > LogCapacity
       /\ Len(simulations[j].log) = LogCapacity
       /\ appended[j][1] # simulations[j].log[1]

\* C27: the runner's fatal-line test and the store's agree on every line: the
\* store marks the job Failed on a line exactly when the runner
\* short-circuits on it.
C27_FatalTestsAgree ==
    pc = "classified" =>
       (fatal_error_detected <=> simulations[1].status = FailedBare)

\* C28: a job's stored status never returns to Waiting and never goes from
\* Running back to Initializing, in whatever order the two consumers apply
\* the runner's Initializing and Running updates and its log lines.
C28_StatusForward ==
    [][\A j \in DOMAIN simulations :
          /\ simulations'[j].status = "Waiting" => simulations[j].status = "Waiting"
          /\ ~(/\ simulations[j].status = "Running"
               /\ simulations'[j].status = "Initializing")]_vars

\* the sweep runs its checks while job j is active, Initializing, with errors
ForcedBySweep(j) ==
    /\ SweepStep
    /\ j \in StuckInitializing(SchedState)

\* the scan for failed jobs of a control-loop iteration ends
FailedScanStep == pc = "failed" /\ pc' = "sweep"

\* C29: a sweep that finds an active job Initializing with a nonzero error
\* counter makes its status Failed; by the end of the next iteration of the
\* control loop the job has a row, has left the active set and the next
\* waiting job has taken its place.
C29_StuckInitializingFails ==
    [][/\ \A j \in Jobs : ForcedBySweep(j) => simulations'[j].status = FailedBare
       /\ FailedScanStep =>
             \A j \in forced :
                /\ j \in csv_written'
                /\ j \notin ActiveNames(active_processes')
                /\ (j \in ActiveNames(active_processes) /\ waiting_files # << >>)
                      => Len(waiting_files') < Len(waiting_files)]_vars

\* the statuses of the UPDATE messages in a sequence of messages
StatusUpdates(msgs) ==
    SelectSeq(msgs, LAMBDA m : m.type = "UPDATE" /\ "status" \in DOMAIN m.updates)

\* the runner of job j reached the end of the output without a fatal line
Exited(j) == exit_status[j] # "none"

\* C30: without a fatal line, the last status update the runner emits after
\* the end of the output is Completed for exit code 0 and 'Failed (Exit code)'
\* otherwise, and that update is the job's final status in the store, also
\* when a success marker had set the status to Completed before.
C30_ExitStatusFinal ==
    /\ [][\A j \in Jobs :
            exit_status'[j] # exit_status[j] =>
               LET sent == StatusUpdates(pending'[j])
               IN  /\ sent # << >>
                   /\ sent[Len(sent)].updates.status = exit_status'[j]
                   /\ exit_status'[j] \in {"Completed", FailedExit}]_vars
    /\ [](\A j \in DOMAIN simulations :
            (RunFinal /\ Exited(j)) => simulations[j].status = exit_status[j])

RegisterCall(j) ==
    /\ ops' = ops + 1
    /\ last_call'.op = "add_simulation"
    /\ last_call'.name = j

\* C32: add_simulation called with a name the store already holds leaves that
\* record as it is: status, progress, counters, log and both times.
C32_RegisterKeepsRecord ==
    [][\A j \in DOMAIN simulations :
          RegisterCall(j) => simulations'[j] = simulations[j]]_vars

\* C33: from registration on, no store call (an update, a log line, the
\* sweep's forced 'Failed') lowers a job's warning counter or error counter.
C33_CountersMonotone ==
    [][\A j \in DOMAIN simulations :
          /\ simulations'[j].warnings >= simulations[j].warnings
          /\ simulations'[j].errors >= simulations[j].errors]_vars

\* the sweep's forced 'Failed' was applied to a job that has counted a warning
\* and an error
C33_Witness ==
    /\ last_call.op = "update_simulation"
    /\ "status" \in DOMAIN last_call.updates
    /\ last_call.updates.status = FailedBare
    /\ simulations[1].warnings > 0
    /\ simulations[1].errors > 0

\* s without its i-th element
RemoveAt(s, i) == SubSeq(s, 1, i - 1) \o SubSeq(s, i + 1, Len(s))

\* a step that takes a resource sample of job j from the queue and applies it
MonitorApplied(j) ==
    \E i \in 1..Len(pending[j]) :
       /\ pending[j][i].type = "UPDATE"
       /\ pending[j][i].updates \in CpuSamples
       /\ pending'[j] = RemoveAt(pending[j], i)

\* a record with its cpu and memory fields blanked
WithoutResources(r) == [r EXCEPT !.cpu = 0, !.memory = 0]

\* C34: applying an update sent by a job's process monitor changes the cpu and
\* memory fields of that job's record and nothing else in the store: not the
\* job's status, progress, log, counters or times, and no other job's record.
C34_MonitorFrame ==
    [][\A j \in Jobs :
          MonitorApplied(j) =>
             /\ DOMAIN simulations' = DOMAIN simulations
             /\ \A k \in DOMAIN simulations :
                   IF k = j
                   THEN WithoutResources(simulations'[k]) = WithoutResources(simulations[k])
                   ELSE simulations'[k] = simulations[k]]_vars

\* a sample of one job has been applied while two jobs are registered and the
\* sampled job is running
C34_Witness ==
    /\ Len(idf_files) = NumJobs
    /\ \E j \in DOMAIN simulations :
          /\ simulations[j].cpu > 0
          /\ simulations[j].status = "Running"
          /\ pending[j] = << >>

\* the control loop is at the top of an iteration
IterationBoundary == pc = "drain1"

\* the jobs that were launched and have left the active set
Removed == {j \in Launched : j \notin ActiveNames(active_processes)}

\* C35: at the top of every iteration of a run over n distinct jobs, the
\* waiting list, the active set and the removed jobs partition the submitted
\* jobs: completed_count counts the removed ones, the three sizes add up to n,
\* completed_count is at most n and no job is in two of the three.
C35_Partition ==
    IterationBoundary =>
       /\ completed_count + Len(active_processes) + Len(waiting_files) = Len(idf_files)
       /\ completed_count <= Len(idf_files)
       /\ completed_count = Cardinality(Removed)
       /\ Cardinality(ActiveNames(active_processes)) = Len(active_processes)
       /\ ActiveNames(active_processes) \cap SeqToSet(waiting_files) = {}
       /\ Removed \cap SeqToSet(waiting_files) = {}
       /\ Removed \cup ActiveNames(active_processes) \cup SeqToSet(waiting_files)
             = Submitted

\* one job has been removed and replaced by the job that waited
C35_Witness ==
    /\ IterationBoundary
    /\ completed_count = 1
    /\ Len(active_processes) = 1
    /\ max_workers = 1
    /\ Len(idf_files) = NumJobs

\* the jobs that leave the active set in a step of the control loop
Leaving == ActiveNames(active_processes) \ ActiveNames(active_processes')

\* C36: at the top of every iteration, a non-empty waiting list means the
\* active set holds exactly max_workers jobs; every step of the loop that
\* removes active jobs launches, in the same step, as many waiting jobs as it
\* removed (or all that are waiting).
C36_WorkConserving ==
    /\ []((IterationBoundary /\ waiting_files # << >>)
            => Len(active_processes) = max_workers)
    /\ [][(pc \in {"completed", "failed", "sweep"} /\ pc' # "finally" /\ Leaving # {})
             => LET k == Min(Cardinality(Leaving), Len(waiting_files))
                IN /\ waiting_files' = SubSeq(waiting_files, k + 1, Len(waiting_files))
                   /\ \A i \in 1..k :
                         /\ waiting_files[i] \in ActiveNames(active_processes')
                         /\ launches'[waiting_files[i]] = launches[waiting_files[i]] + 1]_vars

\* the loop is at full load with a job waiting while an active job has
\* already signalled its end
C36_Witness ==
    /\ IterationBoundary
    /\ waiting_files # << >>
    /\ max_workers >= 1
    /\ Len(active_processes) = max_workers
    /\ \E j \in ActiveNames(active_processes) : signals[j] > 0

\* the first k submitted files have been launched and the others wait, in
\* the submitted order
LaunchedPrefix(k) ==
    /\ waiting_files = SubSeq(idf_files, k + 1, Len(idf_files))
    /\ \A i \in 1..Len(idf_files) : (launches[idf_files[i]] > 0) <=> (i <= k)

\* C37: jobs are launched in the order of the submitted list, by the initial
\* batch and by every replacement: the launched jobs are always a prefix of
\* the list and the waiting ones the rest of it, so a job is never launched
\* before a job that precedes it.
C37_LaunchOrder ==
    /\ [](\E k \in 0..Len(idf_files) : LaunchedPrefix(k))
    /\ [][\A i \in 1..Len(idf_files) :
             launches'[idf_files[i]] > launches[idf_files[i]]
                => \A h \in 1..(i - 1) : launches'[idf_files[h]] > 0]_vars

\* the second job was launched as the replacement of the first
C37_Witness ==
    /\ Len(idf_files) = NumJobs
    /\ max_workers = 1
    /\ LaunchedPrefix(NumJobs)
    /\ idf_files[1] \notin ActiveNames(active_processes)
    /\ idf_files[NumJobs] \in ActiveNames(active_processes)

\* the '#' column counts the rows from 0 and every written name has its row
RowsNumbered ==
    /\ Len(csv_rows) = Cardinality(csv_written)
    /\ \A i \in 1..Len(csv_rows) : csv_rows[i].row = i - 1

\* C38 as stated: row_counter equals the number of written rows in every
\* reachable state, and the row numbers of a run are 0, 1, 2, ... in order.
C38_RowCounter ==
    /\ row_counter = Cardinality(csv_written)
    /\ RowsNumbered

\* C38 as amended: row_counter equals the number of written rows until the
\* final reconciliation pass, which numbers its rows by the size of
\* csv_written and leaves row_counter as it was; over the whole run the row
\* numbers are 0, 1, 2, ... in order.
C38_RowNumbers ==
    /\ pc # "done" => row_counter = Cardinality(csv_written)
    /\ pc = "done" => row_counter <= Cardinality(csv_written)
    /\ RowsNumbered

\* the loop wrote a row and the final pass added another one
C38_Witness ==
    /\ pc = "done"
    /\ row_counter >= 1
    /\ row_counter < Cardinality(csv_written)
    /\ RowsNumbered

\* the line passed to add_log contains the given word
Has(word) == Contains(line_text, << word >>)

\* C39 as stated: one add_log call raises errors by 2 when the line contains
\* 'fatal', by 1 when it contains '* severe *' or 'error' but not 'fatal', by
\* 0 otherwise; warnings rises by 1 exactly when the line contains
\* '* warning *'.
C39_CounterSteps ==
    pc = "classified" =>
       /\ simulations[1].errors =
             (IF Has("fatal") THEN 2
              ELSE IF Has("* severe *") \/ Has(" error") THEN 1
              ELSE 0)
       /\ simulations[1].warnings = (IF Has("* warning *") THEN 1 ELSE 0)

\* C39 as amended: errors rises by 2 when the line contains 'fatal' and not
\* 'energyplus completed successfully', by 1 when it contains 'fatal' together
\* with the success marker or contains '* severe *' or 'error' but not
\* 'fatal', by 0 otherwise; warnings rises by 1 exactly when the line contains
\* '* warning *'.
C39_CounterStepsAmended ==
    pc = "classified" =>
       /\ simulations[1].errors =
             (IF Has("fatal") /\ ~Has("energyplus completed successfully") THEN 2
              ELSE IF Has("fatal") \/ Has("* severe *") \/ Has(" error") THEN 1
              ELSE 0)
       /\ simulations[1].warnings = (IF Has("* warning *") THEN 1 ELSE 0)

\* add_log has counted a line that holds 'fatal', the success marker and a
\* warning
C39_Witness ==
    /\ pc = "classified"
    /\ Has("fatal")
    /\ Has("energyplus completed successfully")
    /\ Has("* warning *")
    /\ simulations[1].errors = 1
    /\ simulations[1].warnings = 1

====
